---- MODULE Spec2Model ----
(***************************************************************************)
(* Model of bevy_dojo's Starknet bridge (src/src/starknet.rs).             *)
(*                                                                         *)
(* The host thread runs the three Bevy systems init_starknet_connection,   *)
(* execute_transaction and check_sn_task on the StarknetConnection         *)
(* resource; a Tokio runtime runs the spawned connect / submit tasks in    *)
(* the background.  check_sn_task joins tasks with Runtime::block_on, so   *)
(* the tick has two blocking points; pc records where the host thread is.  *)
(***************************************************************************)
EXTENDS Integers, Sequences, FiniteSets, TLC

\* Bound on the number of tasks spawned on the runtime over one run.
MaxTasks == 4

\* Option::None for a handle or a session (handles and sessions are >= 1).
None == 0

VARIABLES
    sn,      \* the StarknetConnection resource: connecting_task, account, pending_txs
    tasks,   \* the runtime's tasks, indexed by JoinHandle
    pc,      \* position of the host thread
    task,    \* the handle popped by check_sn_task and being joined (local `task`)
    log,     \* the info! events emitted so far
    last,    \* history: the step that ran last
    ret,     \* history: the value returned by the last execute_transaction
    joined,  \* history: every join of a handle by check_sn_task, with its outcome
    resolved,\* history: the handles of the finished tasks, in order of completion
    tick     \* history: the connection and the queue length at the start of the
             \* current tick, and the joins made in it

vars == <<sn, tasks, pc, task, log, last, ret, joined, resolved, tick>>

Handles == 1..Len(tasks)

(***************************************************************************)
(* StarknetConnection and its queries                                      *)
(***************************************************************************)
StarknetConnectionDefault ==
    [connecting_task |-> None, account |-> None, pending_txs |-> <<>>]

is_connected(s) == s.account # None

is_connecting(s) == s.connecting_task # None

pending_tx_count(s) == Len(s.pending_txs)

\* The three states of the spec's tagged union, read off the two Options.
Disconnected(s) == s.connecting_task = None /\ s.account = None
Connecting(s) == s.connecting_task # None /\ s.account = None
Connected(s) == s.connecting_task = None /\ s.account # None

(***************************************************************************)
(* The runtime: spawn, background completion, JoinHandle                   *)
(***************************************************************************)
\* Runtime::spawn: a new running task; its handle is its index.
NewTask(kind, session) ==
    [kind |-> kind, state |-> "running", taken |-> FALSE, session |-> session]

\* What awaiting a finished task's JoinHandle yields.  connect_to_starknet
\* returns the Arc or panics (expect / unwrap), a submit task returns
\* Ok(receipt), Err(AccountError) or panics.
JoinOutcome(t) ==
    CASE t.state = "ok" -> "Ok"
      [] t.state = "err" -> "OkErr"
      [] t.state = "panic" -> "JoinError"

\* connect_to_starknet either builds the account or panics.
ConnectResults == {"ok", "panic"}

\* account.execute_v3(calls).send() resolves to Ok, to Err, or the task panics.
TxResults == {"ok", "err", "panic"}

(***************************************************************************)
(* init_starknet_connection                                                *)
(***************************************************************************)
InitGuardIgnoresAccount(s) == s.connecting_task = None

InitGuardOr(s) == s.connecting_task = None \/ s.account = None

InitGuard(s) == s.connecting_task = None /\ s.account = None

init_starknet_connection ==
    /\ pc = "idle"
    /\ IF InitGuard(sn)
       THEN /\ Len(tasks) < MaxTasks
            /\ tasks' = Append(tasks, NewTask("connect", None))
            /\ sn' = [sn EXCEPT !.connecting_task = Len(tasks) + 1]
            /\ log' = Append(log, [event |-> "connecting", handle |-> Len(tasks) + 1])
       ELSE UNCHANGED <<tasks, sn, log>>
    /\ last' = "init_starknet_connection"
    /\ UNCHANGED <<pc, task, ret, joined, resolved, tick>>

(***************************************************************************)
(* execute_transaction                                                     *)
(***************************************************************************)
ExecGuardOrConnecting(s) == s.account # None \/ s.connecting_task # None

ExecGuardAlways(s) == TRUE

ExecGuard(s) == s.account # None

PushBackTakesAccount(s, h) ==
    [s EXCEPT !.pending_txs = Append(@, h), !.account = None]

PushFront(s, h) == [s EXCEPT !.pending_txs = <<h>> \o @]

PushBack(s, h) == [s EXCEPT !.pending_txs = Append(@, h)]

execute_transaction ==
    /\ pc = "idle"
    /\ IF ExecGuard(sn)
       THEN /\ Len(tasks) < MaxTasks
            /\ tasks' = Append(tasks, NewTask("tx", sn.account))
            /\ sn' = PushBack(sn, Len(tasks) + 1)
            /\ ret' = TRUE
       ELSE /\ ret' = FALSE
            /\ UNCHANGED <<tasks, sn>>
    /\ last' = "execute_transaction"
    /\ UNCHANGED <<pc, task, log, joined, resolved, tick>>

(***************************************************************************)
(* Background completion of spawned tasks                                  *)
(***************************************************************************)
connect_to_starknet_writes_account(h) ==
    /\ pc # "panicked"
    /\ tasks[h].kind = "connect"
    /\ tasks[h].state = "running"
    /\ \E r \in ConnectResults :
          /\ tasks' = [tasks EXCEPT ![h].state = r,
                                    ![h].session = IF r = "ok" THEN h ELSE None]
          /\ sn' = IF r = "ok" THEN [sn EXCEPT !.account = h] ELSE sn
    /\ last' = "connect_to_starknet"
    /\ resolved' = Append(resolved, h)
    /\ UNCHANGED <<pc, task, log, ret, joined, tick>>

connect_to_starknet(h) ==
    /\ pc # "panicked"
    /\ tasks[h].kind = "connect"
    /\ tasks[h].state = "running"
    /\ \E r \in ConnectResults :
          tasks' = [tasks EXCEPT ![h].state = r,
                                 ![h].session = IF r = "ok" THEN h ELSE None]
    /\ last' = "connect_to_starknet"
    /\ resolved' = Append(resolved, h)
    /\ UNCHANGED <<sn, pc, task, log, ret, joined, tick>>

send_tx(h) ==
    /\ pc # "panicked"
    /\ tasks[h].kind = "tx"
    /\ tasks[h].state = "running"
    /\ \E r \in TxResults : tasks' = [tasks EXCEPT ![h].state = r]
    /\ last' = "send_tx"
    /\ resolved' = Append(resolved, h)
    /\ UNCHANGED <<sn, pc, task, log, ret, joined, tick>>

(***************************************************************************)
(* check_sn_task                                                           *)
(***************************************************************************)
\* `if let Ok(account) = block_on(task.await)`: the assignments of the arm.
ConnectArmKeepsTask(s, outcome, session) ==
    IF outcome = "Ok" THEN [s EXCEPT !.account = session] ELSE s

ConnectArmDropsAccount(s, outcome, session) ==
    IF outcome = "Ok" THEN [s EXCEPT !.connecting_task = None] ELSE s

ConnectArm(s, outcome, session) ==
    IF outcome = "Ok"
    THEN [s EXCEPT !.account = session, !.connecting_task = None]
    ELSE s

\* info! of the connect arm: only the Ok pattern logs.
ConnectLog(l, h, outcome) ==
    IF outcome = "Ok" THEN Append(l, [event |-> "connected", handle |-> h]) ELSE l

\* info! of the transaction arm: only Ok(Ok(result)) logs.
TxLog(l, h, outcome) ==
    IF outcome = "Ok" THEN Append(l, [event |-> "tx_completed", handle |-> h]) ELSE l

\* VecDeque::pop_front: the removed handle and what stays in the queue.
pop_back(q) == [task |-> q[Len(q)], rest |-> SubSeq(q, 1, Len(q) - 1)]

pop_drain(q) == [task |-> Head(q), rest |-> <<>>]

pop_peek(q) == [task |-> Head(q), rest |-> q]

pop_front(q) == [task |-> Head(q), rest |-> Tail(q)]

\* The "Check pending transactions" half up to its block_on, run on the
\* connection as the connect half left it.
CheckPendingOffByOne(s) ==
    IF Len(s.pending_txs) > 1 /\ s.account # None
    THEN /\ sn' = [s EXCEPT !.pending_txs = pop_front(s.pending_txs).rest]
         /\ task' = pop_front(s.pending_txs).task
         /\ pc' = "join_tx"
    ELSE /\ sn' = s
         /\ task' = None
         /\ pc' = "idle"

CheckPending(s) ==
    IF s.pending_txs # <<>> /\ s.account # None
    THEN /\ sn' = [s EXCEPT !.pending_txs = pop_front(s.pending_txs).rest]
         /\ task' = pop_front(s.pending_txs).task
         /\ pc' = "join_tx"
    ELSE /\ sn' = s
         /\ task' = None
         /\ pc' = "idle"

check_sn_task_takes_account ==
    /\ pc = "idle"
    /\ tick' = [start |-> sn, start_len |-> Len(sn.pending_txs),
                connect_joins |-> 0, tx_joins |-> 0]
    /\ IF sn.connecting_task # None
       THEN /\ pc' = "join_connect"
            /\ UNCHANGED <<sn, task>>
       ELSE /\ sn' = [sn EXCEPT !.account = None]
            /\ task' = None
            /\ pc' = "idle"
    /\ last' = "check_sn_task"
    /\ UNCHANGED <<tasks, log, ret, joined, resolved>>

\* Entry of the system, up to its first block_on (or to its end).
check_sn_task ==
    /\ pc = "idle"
    /\ tick' = [start |-> sn, start_len |-> Len(sn.pending_txs),
                connect_joins |-> 0, tx_joins |-> 0]
    /\ IF sn.connecting_task # None
       THEN /\ pc' = "join_connect"
            /\ UNCHANGED <<sn, task>>
       ELSE CheckPending(sn)
    /\ last' = "check_sn_task"
    /\ UNCHANGED <<tasks, log, ret, joined, resolved>>

\* block_on(task.await) on the connecting task returns once the task has
\* finished.  A JoinHandle whose output was already taken panics when it is
\* polled again ("JoinHandle polled after completion"), which unwinds the
\* system.
check_sn_task_connect ==
    /\ pc = "join_connect"
    /\ LET h == sn.connecting_task
           t == tasks[h]
       IN /\ t.state # "running"
          /\ tick' = [tick EXCEPT !.connect_joins = @ + 1]
          /\ IF t.taken
             THEN /\ pc' = "panicked"
                  /\ joined' = Append(joined, [handle |-> h, outcome |-> "Panic"])
                  /\ UNCHANGED <<sn, tasks, task, log>>
             ELSE /\ tasks' = [tasks EXCEPT ![h].taken = TRUE]
                  /\ joined' = Append(joined, [handle |-> h, outcome |-> JoinOutcome(t)])
                  /\ log' = ConnectLog(log, h, JoinOutcome(t))
                  /\ CheckPending(ConnectArm(sn, JoinOutcome(t), t.session))
    /\ last' = "check_sn_task_connect"
    /\ UNCHANGED <<ret, resolved>>

\* `if let Ok(Ok(result)) = block_on(task.await)`: neither the arm nor its
\* absent else branch assigns to the connection; the handle is dropped.
TxArmRequeuesFailure(s, h, outcome) ==
    IF outcome = "Ok" THEN s ELSE [s EXCEPT !.pending_txs = Append(@, h)]

TxArm(s, h, outcome) == s

\* block_on(task.await) on the popped transaction handle.
check_sn_task_tx ==
    /\ pc = "join_tx"
    /\ LET t == tasks[task]
       IN /\ t.state # "running"
          /\ tasks' = [tasks EXCEPT ![task].taken = TRUE]
          /\ joined' = Append(joined, [handle |-> task, outcome |-> JoinOutcome(t)])
          /\ log' = TxLog(log, task, JoinOutcome(t))
          /\ sn' = TxArm(sn, task, JoinOutcome(t))
    /\ tick' = [tick EXCEPT !.tx_joins = @ + 1]
    /\ task' = None
    /\ pc' = "idle"
    /\ last' = "check_sn_task_tx"
    /\ UNCHANGED <<ret, resolved>>

(***************************************************************************)
(* Specifications                                                          *)
(***************************************************************************)
Init ==
    /\ sn = StarknetConnectionDefault
    /\ tasks = <<>>
    /\ pc = "idle"
    /\ task = None
    /\ log = <<>>
    /\ last = "none"
    /\ ret = FALSE
    /\ joined = <<>>
    /\ resolved = <<>>
    /\ tick = [start |-> StarknetConnectionDefault, start_len |-> 0,
               connect_joins |-> 0, tx_joins |-> 0]

Next ==
    \/ init_starknet_connection
    \/ execute_transaction
    \/ \E h \in Handles : connect_to_starknet(h)
    \/ \E h \in Handles : send_tx(h)
    \/ check_sn_task
    \/ check_sn_task_connect
    \/ check_sn_task_tx

Spec == Init /\ [][Next]_vars

\* Bevy runs check_sn_task in Update every frame: a tick that can proceed does.
Tick == check_sn_task \/ check_sn_task_connect \/ check_sn_task_tx

FairSpec == Spec /\ WF_vars(Tick)

\* The ticks keep running and every submission task that was spawned finishes.
LiveSpec == Spec /\ WF_vars(Tick) /\ WF_vars(\E h \in Handles : send_tx(h))

TypeOK ==
    /\ sn.connecting_task \in Handles \cup {None}
    /\ sn.account \in Handles \cup {None}
    /\ \A i \in 1..Len(sn.pending_txs) : sn.pending_txs[i] \in Handles
    /\ pc \in {"idle", "join_connect", "join_tx", "panicked"}
    /\ task \in Handles \cup {None}
    /\ ret \in BOOLEAN
    /\ Len(tasks) <= MaxTasks

(***************************************************************************)
(* Derived views used by the properties                                    *)
(***************************************************************************)
\* The handles of one kind, in spawn order.
RECURSIVE HandlesOfKind(_, _)
HandlesOfKind(kind, n) ==
    IF n = 0 THEN <<>>
    ELSE IF tasks[n].kind = kind
         THEN Append(HandlesOfKind(kind, n - 1), n)
         ELSE HandlesOfKind(kind, n - 1)

\* execute_transaction spawns and pushes in one call: enqueue order is spawn order.
EnqueueOrder == HandlesOfKind("tx", Len(tasks))

ConnectTasks == {h \in Handles : tasks[h].kind = "connect"}

\* Connect tasks whose outcome no tick has taken yet.
OutstandingConnects == {h \in ConnectTasks : ~tasks[h].taken}

\* The handles of one kind in a sequence of handles, order kept.
RECURSIVE FilterKind(_, _)
FilterKind(kind, q) ==
    IF q = <<>> THEN <<>>
    ELSE IF tasks[Head(q)].kind = kind
         THEN <<Head(q)>> \o FilterKind(kind, Tail(q))
         ELSE FilterKind(kind, Tail(q))

JoinedHandles == [i \in 1..Len(joined) |-> joined[i].handle]

\* Transaction handles in the order the ticks joined them.
ObservedTx == FilterKind("tx", JoinedHandles)

\* Transaction handles in the order their tasks finished in the background.
ResolvedTx == FilterKind("tx", resolved)

\* The handle check_sn_task has popped and is blocked on, if any.
BeingJoined == IF task # None THEN <<task>> ELSE <<>>

InTick == pc # "idle" \/ last \in {"check_sn_task", "check_sn_task_connect", "check_sn_task_tx"}

(***************************************************************************)
(* C1..C3                                                                  *)
(***************************************************************************)
\* C1: at most one connect task is outstanding at any time, and it is the one
\* the connection holds; init_starknet_connection called while is_connecting()
\* or is_connected() spawns nothing and leaves the connection as it was.
C1_SingleConnectInFlight ==
    /\ [](/\ Cardinality(OutstandingConnects) <= 1
          /\ \A h \in OutstandingConnects : sn.connecting_task = h)
    /\ [][(last' = "init_starknet_connection" /\ (is_connecting(sn) \/ is_connected(sn)))
            => (sn' = sn /\ tasks' = tasks /\ log' = log)]_vars

\* init_starknet_connection has just been called on an established connection.
C1_Witness ==
    /\ last = "init_starknet_connection"
    /\ is_connected(sn)
    /\ Cardinality(ConnectTasks) = 1

\* C2: exactly one of Disconnected, Connecting, Connected holds; the
\* connecting task and the account are never both present.
C2_StateExclusive ==
    /\ Cardinality({k \in {"Disconnected", "Connecting", "Connected"} :
                       \/ k = "Disconnected" /\ Disconnected(sn)
                       \/ k = "Connecting" /\ Connecting(sn)
                       \/ k = "Connected" /\ Connected(sn)}) = 1
    /\ ~(sn.connecting_task # None /\ sn.account # None)

\* A tick has just joined the connect task and installed the account.
C2_Witness ==
    /\ last = "check_sn_task_connect"
    /\ Connected(sn)
    /\ joined # <<>>

\* C3: the ticks remove and join transaction handles in enqueue order: what
\* has been joined, then what is being joined, then what is still queued, is
\* the enqueue order, whatever order the tasks finished in.
C3_FifoOrder ==
    ObservedTx \o BeingJoined \o sn.pending_txs = EnqueueOrder

\* Three operations A, B, C were enqueued, finished in the order C, A, B and
\* were joined in the order A, B, C.
C3_Witness ==
    /\ Len(EnqueueOrder) = 3
    /\ ResolvedTx = <<EnqueueOrder[3], EnqueueOrder[1], EnqueueOrder[2]>>
    /\ ObservedTx = EnqueueOrder

(***************************************************************************)
(* C4..C7                                                                  *)
(***************************************************************************)
\* A tick has joined the connect task and found that it failed.
ConnectFailureObserved ==
    \E i \in 1..Len(joined) :
        /\ tasks[joined[i].handle].kind = "connect"
        /\ joined[i].outcome = "JoinError"

\* C4: once a tick has observed the connect task's failure the state is
\* Disconnected again: is_connecting() and is_connected() are both false.
C4_FailedConnectDisconnects ==
    ConnectFailureObserved => (~is_connecting(sn) /\ ~is_connected(sn))

\* C5: execute_transaction called while not connected returns false, spawns
\* no task and leaves the queue and the connection as they were.
C5_NoSubmitWithoutConnection ==
    [][(last' = "execute_transaction" /\ ~is_connected(sn))
         => (ret' = FALSE /\ tasks' = tasks /\ sn' = sn)]_vars

\* execute_transaction has just returned false on a connecting connection.
C5_Witness ==
    /\ last = "execute_transaction"
    /\ ret = FALSE
    /\ Connecting(sn)
    /\ sn.pending_txs = <<>>

\* C6: one tick joins at most one connect task and at most one queue entry,
\* and shortens the queue by at most one entry.
C6_BoundedTickWork ==
    /\ tick.connect_joins <= 1
    /\ tick.tx_joins <= 1
    /\ InTick => Len(sn.pending_txs) >= tick.start_len - 1

\* A tick that started on a queue of three has joined one entry and left two.
C6_Witness ==
    /\ last = "check_sn_task_tx"
    /\ tick.tx_joins = 1
    /\ tick.start_len = 3
    /\ Len(sn.pending_txs) = 2

\* C7: once Connected, the connection stays Connected.
C7_ConnectedForever ==
    [][Connected(sn) => (Connected(sn') /\ is_connected(sn'))]_vars

\* Still connected after init_starknet_connection, execute_transaction and a
\* tick that observed a failed operation.
C7_Witness ==
    /\ Connected(sn)
    /\ last = "init_starknet_connection"
    /\ \E i \in 1..Len(joined) : joined[i].outcome = "OkErr"
    /\ sn.pending_txs # <<>>

(***************************************************************************)
(* C8..C10                                                                 *)
(***************************************************************************)
\* The connecting task has finished successfully and no tick has joined it yet.
ConnectSucceeded ==
    /\ Connecting(sn)
    /\ tasks[sn.connecting_task].state = "ok"

\* C8: from Disconnected, init_starknet_connection leads to Connecting; the
\* tick that joins a successfully finished connect task leads to Connected,
\* with is_connected() true and is_connecting() false; and with ticks running,
\* a connect task that succeeded leads to Connected.
C8_ConnectSuccessPath ==
    /\ [][(Disconnected(sn) /\ last' = "init_starknet_connection")
            => Connecting(sn')]_vars
    /\ [][(pc = "join_connect" /\ pc' # "join_connect" /\ ConnectSucceeded)
            => (Connected(sn') /\ is_connected(sn') /\ ~is_connecting(sn'))]_vars
    /\ (ConnectSucceeded ~> Connected(sn))

\* The success path has run: connecting was logged, then connected.
C8_Witness ==
    /\ is_connected(sn)
    /\ ~is_connecting(sn)
    /\ Len(log) = 2
    /\ log[1].event = "connecting"
    /\ log[2].event = "connected"
    /\ log[2].handle = sn.account

\* C9: a tick joins a given handle at most once, and an operation handle is
\* never queued again once it has been popped.
C9_JoinedExactlyOnce ==
    /\ \A i, j \in 1..Len(joined) :
          joined[i].handle = joined[j].handle => i = j
    /\ \A i \in 1..Len(sn.pending_txs) :
          /\ \A j \in 1..Len(joined) : joined[j].handle # sn.pending_txs[i]
          /\ sn.pending_txs[i] # task

\* C10: every failure a tick observes has produced an event: a failed
\* connect a "failed" event, a failed operation an event with its failure.
C10_FailuresReported ==
    \A i \in 1..Len(joined) :
        joined[i].outcome \in {"OkErr", "JoinError"} =>
            \E k \in 1..Len(log) :
                /\ log[k].handle = joined[i].handle
                /\ log[k].event \in {"failed", "tx_failed"}

(***************************************************************************)
(* C11..C13                                                                *)
(***************************************************************************)
TickSteps == {"check_sn_task", "check_sn_task_connect", "check_sn_task_tx"}

\* The last tick has run to its end and nothing has been called since.
TickDone == pc = "idle" /\ last \in TickSteps

\* The outcome of the most recent join.
LastJoined == joined[Len(joined)]

\* C11: after a tick has observed the failure of a connect attempt nothing
\* but the caller spawns a connect task, and the caller's next
\* init_starknet_connection does spawn one and moves the state to Connecting.
C11_ReconnectAfterFailure ==
    [][ConnectFailureObserved =>
         /\ last' # "init_starknet_connection" => Len(tasks') = Len(tasks)
         /\ last' = "init_starknet_connection" =>
               /\ Len(tasks') = Len(tasks) + 1
               /\ tasks'[Len(tasks')].kind = "connect"
               /\ sn'.connecting_task = Len(tasks')
               /\ Connecting(sn')]_vars

\* C12: a tick that polled an operation whose task failed has removed that
\* entry, left the rest of the queue in order, not queued it again, and left
\* the connection Connected with the same session.
C12_FailedOperationDiscarded ==
    (TickDone /\ last = "check_sn_task_tx" /\ LastJoined.outcome \in {"OkErr", "JoinError"}) =>
        /\ LastJoined.handle = Head(tick.start.pending_txs)
        /\ sn.pending_txs = Tail(tick.start.pending_txs)
        /\ \A i \in 1..Len(sn.pending_txs) : sn.pending_txs[i] # LastJoined.handle
        /\ Connected(tick.start)
        /\ Connected(sn)
        /\ sn.account = tick.start.account

\* A tick has just discarded a failed operation from the head of a queue of
\* three.
C12_Witness ==
    /\ TickDone
    /\ last = "check_sn_task_tx"
    /\ LastJoined.outcome = "OkErr"
    /\ Len(tick.start.pending_txs) = 3
    /\ Len(sn.pending_txs) = 2

\* C13: execute_transaction called while connected returns true, spawns
\* exactly one submission task, appends its handle at the tail of the queue
\* and leaves the connection state as it was.
C13_EnqueueWhileConnected ==
    [][(last' = "execute_transaction" /\ is_connected(sn)) =>
         /\ ret' = TRUE
         /\ Len(tasks') = Len(tasks) + 1
         /\ SubSeq(tasks', 1, Len(tasks)) = tasks
         /\ tasks'[Len(tasks')].kind = "tx"
         /\ sn'.pending_txs = Append(sn.pending_txs, Len(tasks'))
         /\ sn'.account = sn.account
         /\ sn'.connecting_task = sn.connecting_task]_vars

\* execute_transaction has just returned true on a queue that already held
\* two operations.
C13_Witness ==
    /\ last = "execute_transaction"
    /\ ret = TRUE
    /\ Connected(sn)
    /\ Len(sn.pending_txs) = 3
    /\ sn.pending_txs[3] = Len(tasks)

(***************************************************************************)
(* C14..C16                                                                *)
(***************************************************************************)
\* C14: the tick never stalls on a background task: wherever check_sn_task
\* stands inside a block_on, it can take its next step, whether or not the
\* task it joins has finished.
C14_TickNeverStalls ==
    pc \in {"join_connect", "join_tx"} => ENABLED Tick

\* C15: a tick run while connected on a non-empty queue has removed exactly
\* the head entry: the queue is one shorter, the former second entry is the
\* head, and the joined handle is the former head, whatever its outcome.
C15_TickRemovesHead ==
    (TickDone /\ is_connected(tick.start) /\ tick.start.pending_txs # <<>>) =>
        /\ Len(sn.pending_txs) = Len(tick.start.pending_txs) - 1
        /\ sn.pending_txs = Tail(tick.start.pending_txs)
        /\ Len(tick.start.pending_txs) >= 2 =>
              Head(sn.pending_txs) = tick.start.pending_txs[2]
        /\ tick.tx_joins = 1
        /\ LastJoined.handle = Head(tick.start.pending_txs)

\* A tick has just removed a successful head from a queue of two.
C15_Witness ==
    /\ TickDone
    /\ is_connected(tick.start)
    /\ Len(tick.start.pending_txs) = 2
    /\ Len(sn.pending_txs) = 1
    /\ LastJoined.outcome = "Ok"
    /\ LastJoined.handle = Head(tick.start.pending_txs)

\* C16: a tick run with no connecting task and an empty queue joins nothing,
\* emits nothing and leaves connecting_task, account and pending_txs alone.
C16_IdleTickIsNoOp ==
    [][(pc = "idle" /\ last' = "check_sn_task"
          /\ sn.connecting_task = None /\ sn.pending_txs = <<>>) =>
         /\ sn' = sn
         /\ joined' = joined
         /\ log' = log
         /\ tasks' = tasks
         /\ pc' = "idle"]_vars

\* A tick has just run to its end on a connected, drained connection.
C16_Witness ==
    /\ TickDone
    /\ last = "check_sn_task"
    /\ tick.start = sn
    /\ Connected(sn)
    /\ sn.pending_txs = <<>>
    /\ Len(joined) >= 2

(***************************************************************************)
(* C17..C18                                                                *)
(***************************************************************************)
\* The handle is in the queue or popped and not yet joined.
Pending(h) ==
    \/ \E i \in 1..Len(sn.pending_txs) : sn.pending_txs[i] = h
    \/ (h # None /\ task = h)

\* A tick has joined the handle and it is no longer queued.
Removed(h) ==
    /\ \E i \in 1..Len(joined) : joined[i].handle = h
    /\ ~Pending(h)

\* C17: with the submission tasks finishing and the ticks running, every
\* enqueued operation is eventually joined and removed and the queue empties;
\* each tick started on a non-empty queue takes one entry off it, so N ticks
\* empty a queue of N.
C17_QueueDrains ==
    /\ [][(pc = "idle" /\ last' = "check_sn_task" /\ sn.pending_txs # <<>>)
            => Len(sn'.pending_txs) = Len(sn.pending_txs) - 1]_vars
    /\ \A h \in 1..MaxTasks : (h \in Handles /\ Pending(h)) ~> Removed(h)
    /\ (sn.pending_txs # <<>>) ~> (sn.pending_txs = <<>> /\ task = None)

\* Three operations were enqueued and three ticks later the queue is empty.
C17_Witness ==
    /\ Len(EnqueueOrder) = 3
    /\ ObservedTx = EnqueueOrder
    /\ sn.pending_txs = <<>>
    /\ TickDone

Handlers ==
    {"init_starknet_connection", "execute_transaction"} \cup TickSteps

\* C18: the completion of a background task changes none of is_connected(),
\* is_connecting() and pending_tx_count(); the connection changes only inside
\* the three systems, and it becomes connected only in the tick that joins
\* the connect task.
C18_CompletionInvisibleUntilTick ==
    /\ [][last' \in {"connect_to_starknet", "send_tx"} =>
            /\ is_connected(sn') = is_connected(sn)
            /\ is_connecting(sn') = is_connecting(sn)
            /\ pending_tx_count(sn') = pending_tx_count(sn)]_vars
    /\ [][sn' # sn => last' \in Handlers]_vars
    /\ [][(~is_connected(sn) /\ is_connected(sn')) => last' = "check_sn_task_connect"]_vars

\* The connect task has finished successfully while the tick has not joined
\* it yet: the connection still reads as connecting.
C18_Witness ==
    /\ last = "connect_to_starknet"
    /\ ConnectSucceeded
    /\ ~is_connected(sn)
    /\ is_connecting(sn)

(***************************************************************************)
(* C19..C20                                                                *)
(***************************************************************************)
\* C19: a non-empty pending queue implies an established connection, so the
\* account check of the tick never keeps a pending operation from being
\* polled.
C19_PendingImpliesConnected ==
    pending_tx_count(sn) > 0 => is_connected(sn)

\* The tick has passed its account check on a queue of two and popped the head.
C19_Witness ==
    /\ pc = "join_tx"
    /\ tick.start_len = 2
    /\ pending_tx_count(sn) = 1
    /\ is_connected(sn)

\* The "connected" events: one per assignment of the account.
Assignments == {k \in 1..Len(log) : log[k].event = "connected"}

\* C20: the account is assigned at most once and never replaced, and every
\* pending operation captured the session the connection holds.
C20_SingleSession ==
    /\ [](/\ Cardinality(Assignments) <= 1
          /\ \A i \in 1..Len(sn.pending_txs) :
                tasks[sn.pending_txs[i]].session = sn.account
          /\ task # None => tasks[task].session = sn.account)
    /\ [][sn.account # None => sn'.account = sn.account]_vars

\* Two operations are queued on the session that the one joined connect task
\* produced.
C20_Witness ==
    /\ Cardinality(Assignments) = 1
    /\ sn.account # None
    /\ Len(sn.pending_txs) = 2
    /\ \A i \in 1..2 : tasks[sn.pending_txs[i]].session = sn.account
    /\ tasks[sn.account].kind = "connect"

====
